---- MODULE Spec2Model ----
(***************************************************************************)
(* Model of the minnow ByteStream (src/src/byte_stream.hh,                 *)
(* src/src/byte_stream.cc) and of its drain helper read                    *)
(* (src/src/byte_stream_helpers.cc), driven by a caller that issues        *)
(* push, pop, close, set_error and read in any order.                      *)
(*                                                                         *)
(* The member functions are translated from their bodies in                *)
(* byte_stream.cc as they stand: push and pop discard their argument, the  *)
(* queries return a value-initialised result, close assigns closed_.       *)
(***************************************************************************)
EXTENDS Integers, Sequences, FiniteSets, TLC

\* ------------------------------------------------------------------ bounds
MaxCap == 10     \* largest capacity a stream is constructed with
MaxPush == 6     \* longest string handed to one push
MaxPop == 2      \* largest len handed to one pop
MaxRead == 2     \* largest max_len handed to one read
MaxCalls == 3    \* number of calls the caller makes on one stream
MaxArgc == 5     \* largest argc webget is started with
MaxResp == 3     \* longest response the server sends, in bytes
MaxHandles == 4  \* FileDescriptor objects that may share one FDWrapper
MaxOver == 2     \* how far past sizeof(sockaddr_storage) a size is tried

\* ----------------------------------------------------------------- helpers
Min(a, b) == IF a <= b THEN a ELSE b

\* std::string_view::substr( 0, k ): the first k elements, or all of them
Take(s, k) == SubSeq(s, 1, Min(k, Len(s)))

IsPrefix(p, s) == Len(p) <= Len(s) /\ SubSeq(s, 1, Len(p)) = p

\* capacities the caller constructs a stream with (capacity is positive)
Capacities == {1, 2, 5, 10, 1000} \cup {MaxCap}

VARIABLES
  capacity_,   \* ByteStream::capacity_
  error_,      \* ByteStream::error_
  closed_,     \* the member Writer::close assigns; byte_stream.hh declares
               \* none of that name, it is taken as a bool that starts
               \* false, like error_
  out,         \* the caller's string that read fills
  thrown,      \* TRUE when the last call ended with an exception
  hist,        \* the calls made so far, in order, with their arguments
  accepted,    \* bytes the stream reported as pushed, in push order
  removed,     \* bytes the caller saw leave the stream, in pop order
  main,        \* the run of webget's main: its position, arguments, effects
  url,         \* the run of webget's get_URL and the connection it uses
  fds,         \* FileDescriptor handles, their FDWrapper and the kernel's view
  adr          \* an Address under construction or conversion

bsvars == <<capacity_, error_, closed_, out, thrown, hist, accepted, removed>>

vars == <<bsvars, main, url, fds, adr>>

stream == <<capacity_, error_, closed_>>

\* what the caller's string may hold before it is handed to read
OutContents == {<<>>, <<255>>}

\* ----------------------------------------------------- caller's bookkeeping
Call(op, n, data) == [op |-> op, n |-> n, data |-> data]

RECURSIVE OfferedIn(_)
OfferedIn(h) ==
  IF h = <<>> THEN 0
  ELSE (IF h[Len(h)].op = "push" THEN h[Len(h)].n ELSE 0)
       + OfferedIn(SubSeq(h, 1, Len(h) - 1))

\* number of bytes handed to push so far, accepted or not
Offered == OfferedIn(hist)

\* the string of n bytes the caller pushes next: every byte offered to the
\* stream is distinct from its neighbours, so a reordering, a duplicate or a
\* gap is visible in what comes out
Fresh(n) == [i \in 1..n |-> (Offered + i) % 256]

RECURSIVE LastDataIn(_)
LastDataIn(h) ==
  IF h = <<>> THEN <<>>
  ELSE IF h[Len(h)].op = "push" THEN h[Len(h)].data
  ELSE LastDataIn(SubSeq(h, 1, Len(h) - 1))

\* the argument of the most recent push
LastData == LastDataIn(hist)

CloseCalled == \E i \in DOMAIN hist : hist[i].op = "close"

\* ---------------------------------------------------------------- queries
\* ByteStream::has_error
has_error == error_

\* Writer::is_closed: return {};
is_closed == FALSE

\* Writer::available_capacity: return {};
available_capacity == 0

\* a bytes_pushed that counts every byte handed to push, accepted or not
bytes_pushed_offered == Offered

\* a bytes_pushed that holds the size of the last push instead of the total
bytes_pushed_last == Len(LastData)

\* Writer::bytes_pushed: return {};
bytes_pushed == 0

\* a peek that shows the argument of the last push instead of the front of
\* the buffer
peek_last_data == LastData

\* Reader::peek: return {};
peek == <<>>

\* a bytes_buffered that counts every byte handed to push, without the
\* truncation at the capacity
bytes_buffered_offered == Offered

\* a bytes_buffered that reports the capacity instead of the buffer's length
bytes_buffered_capacity == capacity_

\* Reader::bytes_buffered: return {};
bytes_buffered == 0

\* Reader::bytes_popped: return {};
bytes_popped == 0

\* an is_finished that forgets the closed flag
is_finished_drained == (bytes_buffered = 0)

\* Reader::is_finished: return {};
is_finished == FALSE

\* --------------------------------------------------------------- mutators
\* a push that waits for free capacity instead of returning
push_blocking(data) == available_capacity > 0 /\ UNCHANGED stream

\* a push that raises the error flag when data does not fit
push_error_on_overflow(data) ==
  /\ error_' = (error_ \/ Len(data) > available_capacity)
  /\ UNCHANGED <<capacity_, closed_>>

\* a push that takes the accepted bytes off capacity_
push_consumes_capacity(data) ==
  /\ capacity_' = capacity_ - Min(Len(data), capacity_)
  /\ UNCHANGED <<error_, closed_>>

\* Writer::push: (void)data;
push(data) == UNCHANGED stream

\* a close that flips the flag instead of setting it
close_toggle == closed_' = ~closed_ /\ UNCHANGED <<capacity_, error_>>

\* Writer::close: closed_ = true;
close == closed_' = TRUE /\ UNCHANGED <<capacity_, error_>>

\* Reader::pop: (void)len;
pop(len) == UNCHANGED stream

\* a has_error that clears the flag it returns
query_clears_error(q) ==
  /\ error_' = (IF q = "has_error" THEN FALSE ELSE error_)
  /\ UNCHANGED <<capacity_, closed_>>

\* the const member functions: available_capacity, is_closed, bytes_pushed,
\* peek, is_finished, bytes_buffered, bytes_popped and has_error return a
\* value and write no member
query(q) == UNCHANGED stream

\* a set_error that does not store the flag
set_error_lost == UNCHANGED stream

\* ByteStream::set_error: error_ = true;
set_error == error_' = TRUE /\ UNCHANGED <<capacity_, closed_>>

\* a loop of read whose condition joins its two tests with "or"
RECURSIVE read_loop_or(_, _, _, _)
read_loop_or(r, p, i, max_len) ==
  IF bytes_buffered # 0 \/ Len(r) < max_len
  THEN IF peek = <<>>
       THEN [out |-> r, popped |-> p, iters |-> i + 1, thrown |-> TRUE]
       ELSE LET view == Take(peek, max_len - Len(r))
            IN  read_loop_or(r \o view, p + Len(view), i + 1, max_len)
  ELSE [out |-> r, popped |-> p, iters |-> i, thrown |-> FALSE]

\* The loop of read. pop leaves every member as it is, so the queries the
\* loop condition and the body evaluate are those of the current state; r is
\* the string collected so far, p the number of bytes popped so far and i
\* the number of times the body has been entered.
RECURSIVE read_loop(_, _, _, _)
read_loop(r, p, i, max_len) ==
  IF bytes_buffered # 0 /\ Len(r) < max_len
  THEN IF peek = <<>>
       THEN [out |-> r, popped |-> p, iters |-> i + 1, thrown |-> TRUE]
       ELSE LET view == Take(peek, max_len - Len(r))
            IN  read_loop(r \o view, p + Len(view), i + 1, max_len)
  ELSE [out |-> r, popped |-> p, iters |-> i, thrown |-> FALSE]

\* a read without out.clear()
read_no_clear(max_len) == read_loop(out, 0, 0, max_len)

\* read( reader, max_len, out ): out.clear(), then the loop
read(max_len) == read_loop(<<>>, 0, 0, max_len)

\* ------------------------------------------------------------ webget main
\* the strings a command-line argument may be
Words == {"h", "p"}

\* main before it is started: no arguments, nothing done
MainIdle ==
  [pc |-> "idle", argv |-> <<>>, k |-> 0, reads |-> <<>>, usage |-> FALSE,
   called |-> <<>>, exit |-> "none"]

\* argc and C's argv[i]; argv of the model holds argv[0] at index 1
argc == Len(main.argv)

Arg(i) == main.argv[i + 1]

\* ------------------------------------------------------- FileDescriptor
Handles == 1..MaxHandles

\* no FileDescriptor in use: no handle, no FDWrapper, the descriptor open
FdsIdle ==
  [pc |-> "idle", h |-> [i \in Handles |-> "none"], refs |-> 0,
   closed_ |-> FALSE, explicit |-> FALSE, released |-> 0]

\* the handles that hold the FDWrapper
LiveHandles == {i \in Handles : fds.h[i] = "live"}

\* a move that copies the pointer and leaves the source holding it
moved_from_still_owner == "live"

\* file_descriptor.hh 436-439: the defaulted move takes internal_fd_ out of
\* the source, which is left empty
moved_from == "moved"

\* FDWrapper::close() on wrapper w: close(2) on fd_ unless it is closed
\* already, and closed_ set
FDWrapper_close(w) ==
  [w EXCEPT !.closed_ = TRUE,
            !.released = IF w.closed_ THEN @ ELSE @ + 1]

\* ~FDWrapper(): closes the file descriptor unless it has been closed
FDWrapper_destroy(w) ==
  [w EXCEPT !.released = IF w.closed_ THEN @ ELSE @ + 1]

\* ------------------------------------------------------------- Address
\* sizeof( sockaddr_storage ), sizeof( sockaddr_in ) and the address families
sizeof_sockaddr_storage == 128

sizeof_sockaddr_in == 16

AF_INET == 2

AF_INET6 == 10

\* a 32-bit value is the sequence of its four base-256 digits, most
\* significant first; memory is a sequence of bytes
ByteSamples == {0, 1, 128, 255}

Values32 == {<<a, b, c, d>> : a \in ByteSamples, b \in ByteSamples,
                              c \in ByteSamples, d \in ByteSamples}

Reverse(q) == [i \in 1..Len(q) |-> q[Len(q) + 1 - i]]

Zeros(n) == [i \in 1..n |-> 0]

\* the bytes a host of the given endianness keeps a 32-bit value in, and
\* the value it reads from four bytes
StoreHost32(v, le) == IF le THEN Reverse(v) ELSE v

LoadHost32(bytes, le) == IF le THEN Reverse(bytes) ELSE bytes

\* the same for a 16-bit number
StoreHost16(n, le) ==
  IF le THEN <<n % 256, n \div 256>> ELSE <<n \div 256, n % 256>>

LoadHost16(bytes, le) ==
  IF le THEN bytes[1] + 256 * bytes[2] ELSE 256 * bytes[1] + bytes[2]

\* htobe32 and be32toh: a byte swap on a little-endian host
htobe32(v, le) == IF le THEN Reverse(v) ELSE v

be32toh(v, le) == IF le THEN Reverse(v) ELSE v

\* memcpy( dst, src, n )
memcpy(dst, src, n) ==
  [i \in 1..Len(dst) |-> IF i <= n THEN src[i] ELSE dst[i]]

\* the size check with >= in the place of >
Address_ctor_ge(addr, size) ==
  IF size >= sizeof_sockaddr_storage
  THEN [thrown |-> TRUE, what |-> "invalid sockaddr size", size |-> 0,
        storage |-> Zeros(sizeof_sockaddr_storage)]
  ELSE [thrown |-> FALSE, what |-> "", size |-> size,
        storage |-> memcpy(Zeros(sizeof_sockaddr_storage), addr, size)]

\* address.cc 75-86: Address( const sockaddr* addr, size_t size ); the
\* result holds _size as size and _address.storage as storage
Address_ctor(addr, size) ==
  IF size > sizeof_sockaddr_storage
  THEN [thrown |-> TRUE, what |-> "invalid sockaddr size", size |-> 0,
        storage |-> Zeros(sizeof_sockaddr_storage)]
  ELSE [thrown |-> FALSE, what |-> "", size |-> size,
        storage |-> memcpy(Zeros(sizeof_sockaddr_storage), addr, size)]

\* a sockaddr_in: sin_family, sin_port, sin_addr.s_addr and padding, as the
\* host keeps them
sockaddr_in(family, s_addr, le) ==
  StoreHost16(family, le) \o <<0, 0>> \o StoreHost32(s_addr, le) \o Zeros(8)

\* from_ipv4_numeric with the conversion to network order left out
from_ipv4_numeric_raw(ip_address, le) ==
  Address_ctor(sockaddr_in(AF_INET, ip_address, le), sizeof_sockaddr_in)

\* address.cc 405-417: Address::from_ipv4_numeric( ip_address )
from_ipv4_numeric(ip_address, le) ==
  Address_ctor(sockaddr_in(AF_INET, htobe32(ip_address, le), le),
               sizeof_sockaddr_in)

\* the ss_family an Address holds
ss_family(a, le) == LoadHost16(SubSeq(a.storage, 1, 2), le)

\* address.cc 375-392: Address::ipv4_numeric()
ipv4_numeric(a, le) ==
  IF ss_family(a, le) # AF_INET \/ a.size # sizeof_sockaddr_in
  THEN [thrown |-> TRUE, what |-> "ipv4_numeric called on non-IPV4 address",
        value |-> <<>>]
  ELSE LET ipv4_addr == memcpy(Zeros(sizeof_sockaddr_in), a.storage, a.size)
       IN [thrown |-> FALSE, what |-> "",
           value |-> be32toh(LoadHost32(SubSeq(ipv4_addr, 5, 8), le), le)]

\* no Address in use
AdrIdle ==
  [pc |-> "idle", le |-> TRUE, via |-> "", x |-> <<>>, addr |-> <<>>,
   size |-> 0, a |-> Address_ctor(<<>>, 0),
   r |-> [thrown |-> FALSE, what |-> "", value |-> <<>>]]

\* the sizes a caller passes with its sockaddr
Sizes ==
  {0, 1, sizeof_sockaddr_in, 28, sizeof_sockaddr_storage}
    \cup {sizeof_sockaddr_storage + k : k \in 1..MaxOver}

\* a caller's sockaddr of the given size: the family, then filler bytes
Sockaddr(family, fill, size, le) ==
  Take(StoreHost16(family, le) \o [i \in 1..size |-> (fill + i) % 256], size)

\* --------------------------------------------------------- webget get_URL
\* kReadBufferSize, the most one read returns
kReadBufferSize == 16384

\* strings are sequences of characters
CRLF == <<"\r", "\n">>

Hosts == {<<"h">>, <<"a", "b">>}

Paths == {<<"/">>, <<"/", "x">>}

\* get_URL before it is called
URLIdle ==
  [pc |-> "idle", host |-> <<>>, path |-> <<>>, resolves |-> FALSE,
   connects |-> FALSE, fate |-> "closes", resp |-> <<>>, got |-> 0,
   eof |-> FALSE, written |-> 0, events |-> <<>>, printed |-> <<>>]

Event(kind, a, b) == [kind |-> kind, a |-> a, b |-> b]

\* a request line built with host in the place of path
Request_host_line(host, path) ==
  <<"G", "E", "T", " ">> \o host \o <<" ", "H", "T", "T", "P", "/", "1", ".", "1">>
    \o CRLF
    \o <<"H", "o", "s", "t", ":", " ">> \o host \o CRLF
    \o <<"C", "o", "n", "n", "e", "c", "t", "i", "o", "n", ":", " ",
         "c", "l", "o", "s", "e">> \o CRLF
    \o CRLF

\* webget.cc 144-147: the request string
Request(host, path) ==
  <<"G", "E", "T", " ">> \o path \o <<" ", "H", "T", "T", "P", "/", "1", ".", "1">>
    \o CRLF
    \o <<"H", "o", "s", "t", ":", " ">> \o host \o CRLF
    \o <<"C", "o", "n", "n", "e", "c", "t", "i", "o", "n", ":", " ",
         "c", "l", "o", "s", "e">> \o CRLF
    \o CRLF

\* a loop condition that lost its negation
url_loop_on_eof == url.eof

\* webget.cc 152: while ( !socket.eof() )
url_loop_continues == ~url.eof

\* FileDescriptor::write( buffer ): attempts the write and returns the number
\* of bytes written, which the set holds: at least one byte, at most all
fd_write(buffer) == 1..Len(buffer)

\* the bytes of the response not read yet
URLRemaining == SubSeq(url.resp, url.got + 1, Len(url.resp))

\* FileDescriptor::read( buffer ) on a blocking socket: the strings it may
\* leave in buffer when data is waiting, any non-empty prefix of it up to
\* kReadBufferSize bytes
fd_read_chunks ==
  {Take(URLRemaining, k) : k \in 1..Min(Len(URLRemaining), kReadBufferSize)}

\* ------------------------------------------------------------------ actions
Init ==
  /\ capacity_ \in Capacities
  /\ error_ = FALSE
  /\ closed_ = FALSE
  /\ out \in OutContents
  /\ thrown = FALSE
  /\ hist = <<>>
  /\ accepted = <<>>
  /\ removed = <<>>
  /\ main = MainIdle
  /\ url = URLIdle
  /\ fds = FdsIdle
  /\ adr = AdrIdle

\* the caller pushes a string of n bytes
Push ==
  /\ Len(hist) < MaxCalls
  /\ \E n \in 0..MaxPush :
       LET data == Fresh(n) IN
       /\ push(data)
       /\ hist' = Append(hist, Call("push", n, data))
       /\ accepted' = accepted \o Take(data, bytes_pushed' - bytes_pushed)
  /\ thrown' = FALSE
  /\ UNCHANGED <<out, removed, main, url, fds, adr>>

\* the caller looks at the front of the stream and pops len bytes, having
\* checked len against bytes_buffered() first
Pop ==
  /\ Len(hist) < MaxCalls
  /\ \E len \in 0..Min(bytes_buffered, MaxPop) :
       /\ pop(len)
       /\ hist' = Append(hist, Call("pop", len, <<>>))
       /\ removed' = removed \o Take(peek, len)
  /\ thrown' = FALSE
  /\ UNCHANGED <<out, accepted, main, url, fds, adr>>

Close ==
  /\ Len(hist) < MaxCalls
  /\ close
  /\ hist' = Append(hist, Call("close", 0, <<>>))
  /\ thrown' = FALSE
  /\ UNCHANGED <<out, accepted, removed, main, url, fds, adr>>

SetError ==
  /\ Len(hist) < MaxCalls
  /\ set_error
  /\ hist' = Append(hist, Call("set_error", 0, <<>>))
  /\ thrown' = FALSE
  /\ UNCHANGED <<out, accepted, removed, main, url, fds, adr>>

Read ==
  /\ Len(hist) < MaxCalls
  /\ \E max_len \in 0..MaxRead :
       LET r == read(max_len) IN
       /\ pop(r.popped)
       /\ out' = r.out
       /\ thrown' = r.thrown
       /\ removed' = removed \o r.out
       /\ hist' = Append(hist, Call("read", max_len, <<>>))
  /\ UNCHANGED <<accepted, main, url, fds, adr>>

Next == Push \/ Pop \/ Close \/ SetError \/ Read

Spec == Init /\ [][Next]_vars

\* the caller pops more than bytes_buffered() reports: pop returns normally
PopBeyond ==
  /\ Len(hist) < MaxCalls
  /\ \E len \in (bytes_buffered + 1)..MaxPop :
       /\ pop(len)
       /\ hist' = Append(hist, Call("pop", len, <<>>))
       /\ removed' = removed \o Take(peek, len)
  /\ thrown' = FALSE
  /\ UNCHANGED <<out, accepted, main, url, fds, adr>>

\* ------------------------------------------------------- actions of main
\* the process is started with argc arguments; no stream is involved
MainInit ==
  /\ capacity_ = 1
  /\ error_ = FALSE
  /\ closed_ = FALSE
  /\ out = <<>>
  /\ thrown = FALSE
  /\ hist = <<>>
  /\ accepted = <<>>
  /\ removed = <<>>
  /\ url = URLIdle
  /\ fds = FdsIdle
  /\ adr = AdrIdle
  /\ \E n \in 0..MaxArgc :
       \E av \in [1..n -> Words] :
         main = [MainIdle EXCEPT !.pc = "start", !.argv = av]

\* webget.cc 270-279: abort when argc <= 0, then the test argc != 3
MainCheckArgc ==
  /\ main.pc = "start"
  /\ main' = IF argc <= 0
             THEN [main EXCEPT !.pc = "done", !.exit = "abort"]
             ELSE IF argc # 3
             THEN [main EXCEPT !.pc = "print", !.k = 0]
             ELSE [main EXCEPT !.pc = "args"]
  /\ UNCHANGED <<bsvars, url, fds, adr>>

\* webget.cc 280-283: cout << args[k] for k = 0, 1, 2, 3. args is a span of
\* argc elements: an index k >= argc is outside it, and the read either
\* yields some pointer that is printed or ends the process
MainPrintArg ==
  /\ main.pc = "print"
  /\ \E crash \in (IF main.k < argc THEN {FALSE} ELSE BOOLEAN) :
       main' = IF crash
               THEN [main EXCEPT !.pc = "done", !.exit = "crash",
                                 !.reads = Append(@, main.k)]
               ELSE [main EXCEPT !.pc = IF main.k = 3 THEN "usage" ELSE "print",
                                 !.k = IF main.k = 3 THEN 3 ELSE main.k + 1,
                                 !.reads = Append(@, main.k)]
  /\ UNCHANGED <<bsvars, url, fds, adr>>

\* webget.cc 284-287: the usage message with args.front(), return EXIT_FAILURE
MainUsage ==
  /\ main.pc = "usage"
  /\ main' = [main EXCEPT !.pc = "done", !.usage = TRUE,
                          !.reads = Append(@, 0), !.exit = "EXIT_FAILURE"]
  /\ UNCHANGED <<bsvars, url, fds, adr>>

\* webget.cc 291-292: host { args[1] }, path { args[2] }
MainArgs ==
  /\ main.pc = "args"
  /\ main' = [main EXCEPT !.pc = "call", !.reads = @ \o <<1, 2>>]
  /\ UNCHANGED <<bsvars, url, fds, adr>>

\* webget.cc 295-315: get_URL( host, path ) returns or throws an exception
\* that the catch clause turns into EXIT_FAILURE
MainGetURL ==
  /\ main.pc = "call"
  /\ \E throws \in BOOLEAN :
       main' = [main EXCEPT !.pc = "done",
                           !.called = <<Arg(1), Arg(2), throws>>,
                           !.exit = IF throws THEN "EXIT_FAILURE"
                                    ELSE "EXIT_SUCCESS"]
  /\ UNCHANGED <<bsvars, url, fds, adr>>

MainNext == MainCheckArgc \/ MainPrintArg \/ MainUsage \/ MainArgs \/ MainGetURL

SpecMain == MainInit /\ [][MainNext]_vars

\* ---------------------------------------------------- actions of get_URL
StreamUnused ==
  /\ capacity_ = 1
  /\ error_ = FALSE
  /\ closed_ = FALSE
  /\ out = <<>>
  /\ thrown = FALSE
  /\ hist = <<>>
  /\ accepted = <<>>
  /\ removed = <<>>

\* get_URL( host, path ) is called; the network it meets resolves the host
\* or not, accepts the connection or not, and the server sends resp and
\* then closes, stays silent or resets the connection
URLInit ==
  /\ StreamUnused
  /\ main = MainIdle
  /\ fds = FdsIdle
  /\ adr = AdrIdle
  /\ \E h \in Hosts, p \in Paths, rs \in BOOLEAN, cn \in BOOLEAN,
        ft \in {"closes", "hangs", "resets"}, n \in 0..MaxResp :
       url = [URLIdle EXCEPT !.pc = "resolve", !.host = h, !.path = p,
                             !.resolves = rs, !.connects = cn, !.fate = ft,
                             !.resp = [i \in 1..n |-> i]]

\* webget.cc 99-100: Address addr( host, "80" ), which throws when
\* getaddrinfo fails, then the line "Address created: ..." on cout
URLResolve ==
  /\ url.pc = "resolve"
  /\ url' = [url EXCEPT
               !.events = Append(@, Event("resolve", url.host, <<"8", "0">>)),
               !.printed = IF url.resolves
                           THEN Append(@, <<"Address created">>) ELSE @,
               !.pc = IF url.resolves THEN "connect" ELSE "threw"]
  /\ UNCHANGED <<bsvars, main, fds, adr>>

\* webget.cc 104-105: TCPSocket socket; socket.connect( addr )
URLConnect ==
  /\ url.pc = "connect"
  /\ url' = [url EXCEPT
               !.events = Append(@, Event("connect", <<>>, <<>>)),
               !.pc = IF url.connects THEN "write" ELSE "threw"]
  /\ UNCHANGED <<bsvars, main, fds, adr>>

\* webget.cc 144-149: socket.write( request ), return value unused
URLWrite ==
  /\ url.pc = "write"
  /\ LET request == Request(url.host, url.path) IN
     \E n \in fd_write(request) :
       url' = [url EXCEPT
                 !.events = Append(@, Event("write", request, <<>>)),
                 !.written = n,
                 !.pc = "loop"]
  /\ UNCHANGED <<bsvars, main, fds, adr>>

\* webget.cc 152-156: one turn of the loop: socket.read( buffer ),
\* cout << buffer, buffer.clear(). The read blocks until data is waiting or
\* the peer has closed; at the end of the stream it returns nothing and
\* sets eof, and on a reset connection it throws
URLRead ==
  /\ url.pc = "loop"
  /\ url_loop_continues
  /\ \/ \E chunk \in fd_read_chunks :
          url' = [url EXCEPT
                    !.events = Append(@, Event("read", chunk, <<>>)),
                    !.printed = Append(@, chunk),
                    !.got = @ + Len(chunk)]
     \/ /\ URLRemaining = <<>>
        /\ url.fate = "closes"
        /\ url' = [url EXCEPT
                     !.events = Append(@, Event("read", <<>>, <<>>)),
                     !.printed = Append(@, <<>>),
                     !.eof = TRUE]
     \/ /\ URLRemaining = <<>>
        /\ url.fate = "resets"
        /\ url' = [url EXCEPT
                     !.events = Append(@, Event("read", <<>>, <<"threw">>)),
                     !.pc = "threw"]
  /\ UNCHANGED <<bsvars, main, fds, adr>>

\* webget.cc 152: the loop condition is false, get_URL returns
URLReturn ==
  /\ url.pc = "loop"
  /\ ~url_loop_continues
  /\ url' = [url EXCEPT !.pc = "done"]
  /\ UNCHANGED <<bsvars, main, fds, adr>>

URLNext == URLResolve \/ URLConnect \/ URLWrite \/ URLRead \/ URLReturn

SpecURL == URLInit /\ [][URLNext]_vars

\* get_URL keeps running: a step that can be taken is taken
SpecURLFair == SpecURL /\ WF_vars(URLNext)

\* --------------------------------------------- actions of FileDescriptor
\* FileDescriptor( fd ): the first handle and its FDWrapper
FdInit ==
  /\ StreamUnused
  /\ main = MainIdle
  /\ url = URLIdle
  /\ adr = AdrIdle
  /\ fds = [FdsIdle EXCEPT !.pc = "open", !.h[1] = "live", !.refs = 1]

\* g = h.duplicate(): one more handle on the same FDWrapper
FdDuplicate ==
  /\ fds.pc = "open"
  /\ \E i \in LiveHandles, g \in Handles :
       /\ fds.h[g] = "none"
       /\ fds' = [fds EXCEPT !.h[g] = "live", !.refs = @ + 1]
  /\ UNCHANGED <<bsvars, main, url, adr>>

\* FileDescriptor g( std::move( h ) )
FdMove ==
  /\ fds.pc = "open"
  /\ \E i \in LiveHandles, g \in Handles :
       /\ fds.h[g] = "none"
       /\ fds' = [fds EXCEPT !.h[g] = "live", !.h[i] = moved_from]
  /\ UNCHANGED <<bsvars, main, url, adr>>

\* h.close(): file_descriptor.hh 375, internal_fd_->close()
FdClose ==
  /\ fds.pc = "open"
  /\ fds.refs > 0
  /\ \E i \in LiveHandles :
       fds' = [FDWrapper_close(fds) EXCEPT !.explicit = TRUE]
  /\ UNCHANGED <<bsvars, main, url, adr>>

\* ~FileDescriptor() of handle i: the shared_ptr gives up its reference, and
\* the FDWrapper is destroyed with the last one
FdDestroy ==
  /\ fds.pc = "open"
  /\ \E i \in Handles :
       \/ /\ fds.h[i] = "live"
          /\ fds.refs > 0
          /\ LET w == [fds EXCEPT !.h[i] = "dead", !.refs = @ - 1]
             IN fds' = IF w.refs = 0 THEN FDWrapper_destroy(w) ELSE w
       \/ /\ fds.h[i] = "moved"
          /\ fds' = [fds EXCEPT !.h[i] = "dead"]
  /\ UNCHANGED <<bsvars, main, url, adr>>

FdNext == FdDuplicate \/ FdMove \/ FdClose \/ FdDestroy

SpecFd == FdInit /\ [][FdNext]_vars

\* --------------------------------------------------- actions of Address
\* a host of either endianness
AddrInit ==
  /\ StreamUnused
  /\ main = MainIdle
  /\ url = URLIdle
  /\ fds = FdsIdle
  /\ \E le \in BOOLEAN : adr = [AdrIdle EXCEPT !.pc = "start", !.le = le]

\* Address::from_ipv4_numeric( x )
AddrFromNumeric ==
  /\ adr.pc = "start"
  /\ \E x \in Values32 :
       adr' = [adr EXCEPT !.pc = "built", !.via = "numeric", !.x = x,
                          !.a = from_ipv4_numeric(x, adr.le)]
  /\ UNCHANGED <<bsvars, main, url, fds>>

\* Address( addr, size )
AddrFromSockaddr ==
  /\ adr.pc = "start"
  /\ \E family \in {0, AF_INET, AF_INET6}, fill \in {0, 7}, size \in Sizes :
       LET addr == Sockaddr(family, fill, size, adr.le)
           a == Address_ctor(addr, size)
       IN adr' = [adr EXCEPT !.pc = IF a.thrown THEN "rejected" ELSE "built",
                             !.via = "sockaddr", !.addr = addr,
                             !.size = size, !.a = a]
  /\ UNCHANGED <<bsvars, main, url, fds>>

\* a.ipv4_numeric()
AddrIpv4Numeric ==
  /\ adr.pc = "built"
  /\ adr' = [adr EXCEPT !.pc = "converted",
                        !.r = ipv4_numeric(adr.a, adr.le)]
  /\ UNCHANGED <<bsvars, main, url, fds>>

AddrNext == AddrFromNumeric \/ AddrFromSockaddr \/ AddrIpv4Numeric

SpecAddr == AddrInit /\ [][AddrNext]_vars

\* the const member functions of ByteStream, Writer and Reader
Queries ==
  {"available_capacity", "is_closed", "bytes_pushed", "peek", "is_finished",
   "bytes_buffered", "bytes_popped", "has_error"}

\* the caller evaluates one of the queries
Query ==
  /\ Len(hist) < MaxCalls
  /\ \E q \in Queries :
       /\ query(q)
       /\ hist' = Append(hist, Call(q, 0, <<>>))
  /\ thrown' = FALSE
  /\ UNCHANGED <<out, accepted, removed, main, url, fds, adr>>

NextQuery == Next \/ Query

\* the caller of Spec, who also evaluates the queries between the calls
SpecQuery == Init /\ [][NextQuery]_vars

NextMisuse == Next \/ PopBeyond

\* the caller of Spec, who may also break the precondition of pop
SpecMisuse == Init /\ [][NextMisuse]_vars

\* ------------------------------------------------------------------ claims
\* the calls made so far as <<operation, size>> pairs
Calls == [i \in DOMAIN hist |-> <<hist[i].op, hist[i].n>>]

\* the step is a call of op with size n
IsCall(op, n) ==
  /\ Len(hist') = Len(hist) + 1
  /\ hist'[Len(hist')].op = op
  /\ hist'[Len(hist')].n = n

JustCalled(op) == hist # <<>> /\ hist[Len(hist)].op = op

\* C1: conservation: in every reachable state
\* bytes_pushed() - bytes_popped() == bytes_buffered().
C1_Conservation == bytes_pushed - bytes_popped = bytes_buffered

\* a non-empty push, then a pop, have been made
C1_Witness ==
  \E i, j \in DOMAIN hist :
    i < j /\ hist[i].op = "push" /\ hist[i].n > 0 /\ hist[j].op = "pop"

\* C2: capacity invariant: bytes_buffered() <= capacity in every reachable
\* state, whatever the sizes pushed.
C2_Capacity == bytes_buffered <= capacity_

\* a push of more bytes than the capacity has been made
C2_Witness == \E i \in DOMAIN hist : hist[i].op = "push" /\ hist[i].n > capacity_

\* C3: a push of n bytes on an open stream increases bytes_buffered() and
\* bytes_pushed() by exactly min(n, available_capacity() before the call);
\* with capacity 10, a push of 5 bytes gives buffered 5 and available 5, and
\* a following push of 6 bytes gives buffered 10 and pushed 10.
C3_PushStep ==
  \A n \in 0..(MaxPush + 1) :
    (IsCall("push", n) /\ ~CloseCalled) =>
      /\ bytes_buffered' - bytes_buffered = Min(n, available_capacity)
      /\ bytes_pushed' - bytes_pushed = Min(n, available_capacity)

C3_ScenarioA ==
  /\ (capacity_ = 10 /\ Calls = << <<"push", 5>> >>) =>
       (bytes_buffered = 5 /\ available_capacity = 5)
  /\ (capacity_ = 10 /\ Calls = << <<"push", 5>>, <<"push", 6>> >>) =>
       (bytes_buffered = 10 /\ bytes_pushed = 10)

C3_Push == [][C3_PushStep]_vars /\ []C3_ScenarioA

\* C4: FIFO order: the bytes removed by the pops, followed by the bytes the
\* reader sees next, are a prefix of the bytes accepted by the pushes, in
\* push order.
C4_Fifo == IsPrefix(removed \o peek, accepted)

\* a non-empty push has been made, and a pop or a read after it
C4_Witness ==
  \E i, j \in DOMAIN hist :
    /\ i < j /\ hist[i].op = "push" /\ hist[i].n > 0
    /\ hist[j].op \in {"pop", "read"}

\* C5: pop(len) with len <= bytes_buffered() lowers bytes_buffered() by len
\* and raises bytes_popped() by len, closed or not.
C5_PopStep ==
  \A len \in 0..(MaxPop + 1) :
    IsCall("pop", len) =>
      /\ bytes_buffered' = bytes_buffered - len
      /\ bytes_popped' = bytes_popped + len

C5_Pop == [][C5_PopStep]_vars

\* a pop has been made on a stream that close was called on, after a push
C5_Witness ==
  /\ JustCalled("pop")
  /\ CloseCalled
  /\ \E i \in DOMAIN hist : hist[i].op = "push" /\ hist[i].n > 0

\* C6: a push after close() leaves bytes_buffered(), bytes_pushed() and the
\* buffer as they were; with capacity 5, push 2 bytes, close, push 2 bytes
\* leaves bytes_pushed() at 2.
C6_PushStep ==
  \A n \in 0..(MaxPush + 1) :
    (IsCall("push", n) /\ CloseCalled) =>
      /\ bytes_buffered' = bytes_buffered
      /\ bytes_pushed' = bytes_pushed
      /\ peek' = peek

C6_ScenarioC ==
  (capacity_ = 5 /\ Calls = << <<"push", 2>>, <<"close", 0>>, <<"push", 2>> >>)
    => bytes_pushed = 2

C6_PushAfterClose == [][C6_PushStep]_vars /\ []C6_ScenarioC

\* C7: is_closed() is false on a new stream and true in every state after
\* close() has been called.
C7_CloseMonotone ==
  /\ hist = <<>> => ~is_closed
  /\ CloseCalled => is_closed

\* C8: is_finished() is true iff is_closed() and bytes_buffered() == 0, and
\* it is false before close() even when the buffer is empty.
C8_FinishCondition ==
  /\ is_finished <=> (is_closed /\ bytes_buffered = 0)
  /\ ~CloseCalled => ~is_finished

\* calls have been made, none of them close, and the buffer is empty
C8_Witness == hist # <<>> /\ ~CloseCalled /\ bytes_buffered = 0

\* C9: once close() has been called and every buffered byte is popped,
\* is_finished() is true; closing an empty stream makes it true at once.
C9_Finished == (CloseCalled /\ bytes_buffered = 0) => is_finished

\* C10: available_capacity() == capacity - bytes_buffered() in every
\* reachable state, closed or not.
C10_AvailableCapacity == available_capacity = capacity_ - bytes_buffered

\* the bytes accepted and not yet removed: what the buffer should hold
Buffered == SubSeq(accepted, Len(removed) + 1, Len(accepted))

SetErrorCalled == \E i \in DOMAIN hist : hist[i].op = "set_error"

\* C11: a stream constructed with capacity c > 0 starts empty, open and
\* error-free: all three counters are 0, available_capacity() == c,
\* is_closed(), is_finished() and has_error() are false, peek() is empty.
C11_Fresh ==
  hist = <<>> =>
    /\ bytes_buffered = 0 /\ bytes_pushed = 0 /\ bytes_popped = 0
    /\ available_capacity = capacity_
    /\ ~is_closed /\ ~is_finished /\ ~has_error
    /\ peek = <<>>

\* C12: peek() is empty iff bytes_buffered() == 0; a non-empty buffer gives
\* a non-empty view that is a prefix of the buffered bytes, oldest first.
C12_Peek ==
  /\ (peek = <<>>) <=> (bytes_buffered = 0)
  /\ bytes_buffered > 0 => (peek # <<>> /\ IsPrefix(peek, Buffered))

\* the last call was a push of at least one byte
C12_Witness == JustCalled("push") /\ hist[Len(hist)].n > 0

\* C13: has_error() is false on a new stream, true once set_error() has been
\* called, and never goes back to false.
C13_Flag ==
  /\ hist = <<>> => ~has_error
  /\ SetErrorCalled => has_error

C13_Error == []C13_Flag /\ [][has_error => has_error']_vars

\* set_error has been called and another operation after it
C13_Witness ==
  \E i, j \in DOMAIN hist :
    i < j /\ hist[i].op = "set_error" /\ hist[j].op # "set_error"

\* C14: set_error() changes nothing but the error flag, push, pop and close
\* act on an errored stream as on any other; with capacity 1000, set_error
\* then a push of 1 byte gives bytes_buffered() == 1 and has_error().
C14_SetErrorStep ==
  IsCall("set_error", 0) =>
    /\ UNCHANGED <<capacity_, closed_>>
    /\ bytes_buffered' = bytes_buffered
    /\ bytes_pushed' = bytes_pushed
    /\ bytes_popped' = bytes_popped
    /\ peek' = peek

C14_ScenarioD ==
  (capacity_ = 1000 /\ Calls = << <<"set_error", 0>>, <<"push", 1>> >>)
    => (bytes_buffered = 1 /\ has_error)

C14_Orthogonal == [][C14_SetErrorStep]_vars /\ []C14_ScenarioD

\* C15: read(reader, max_len, out) leaves in out the first
\* min(max_len, bytes_buffered()) buffered bytes, in order, and removes
\* exactly those bytes from the stream.
C15_ReadStep ==
  \A max_len \in 0..(MaxRead + 1) :
    IsCall("read", max_len) =>
      /\ Len(out') = Min(max_len, bytes_buffered)
      /\ out' = Take(Buffered, Min(max_len, bytes_buffered))
      /\ removed' = removed \o out'
      /\ bytes_buffered' = bytes_buffered - Len(out')

C15_Read == [][C15_ReadStep]_vars

\* the last call was a read with max_len > 0, after a push of at least one
\* byte
C15_Witness ==
  /\ JustCalled("read") /\ hist[Len(hist)].n > 0
  /\ \E i \in DOMAIN hist : hist[i].op = "push" /\ hist[i].n > 0

\* C16: pop(len) with len > bytes_buffered() fails loudly: the call ends
\* with an exception or an abort, it does not return normally.
C16_PopBeyondStep ==
  \A len \in 0..(MaxPop + 1) :
    (IsCall("pop", len) /\ len > bytes_buffered) => thrown'

C16_PopBeyond == [][C16_PopBeyondStep]_vars

\* C17: close() touches only the closed flag and is idempotent: a close on
\* a closed stream changes nothing, and no close changes the buffer, the
\* counters or has_error().
C17_CloseStep ==
  IsCall("close", 0) =>
    /\ closed_ => UNCHANGED stream
    /\ closed_'
    /\ has_error' = has_error
    /\ bytes_buffered' = bytes_buffered
    /\ bytes_pushed' = bytes_pushed
    /\ bytes_popped' = bytes_popped
    /\ peek' = peek
    /\ UNCHANGED <<accepted, removed>>

C17_Close == [][C17_CloseStep]_vars

\* close has been called twice, the second time after a push
C17_Witness ==
  \E i, j, k \in DOMAIN hist :
    /\ i < k /\ j < k
    /\ hist[i].op = "close" /\ hist[j].op = "push" /\ hist[j].n > 0
    /\ hist[k].op = "close"

\* C18: no operation lowers bytes_pushed() or bytes_popped().
C18_Monotone ==
  [][bytes_pushed' >= bytes_pushed /\ bytes_popped' >= bytes_popped]_vars

\* two pushes have been made, the second shorter than the first, and a pop
C18_Witness ==
  \E i, j, k \in DOMAIN hist :
    /\ i < j /\ hist[i].op = "push" /\ hist[j].op = "push"
    /\ hist[j].n < hist[i].n /\ hist[k].op = "pop"

\* C19: once is_finished() is true it stays true, and bytes_buffered()
\* stays 0, whatever is called next.
C19_Terminal == [][is_finished => (is_finished' /\ bytes_buffered' = 0)]_vars

\* C20: in no reachable state is peek() empty while bytes_buffered() > 0,
\* and no read ends with the runtime_error.
C20_NoFault == ~(peek = <<>> /\ bytes_buffered > 0) /\ ~thrown

\* read has been called with max_len > 0 after a push of at least one byte
C20_Witness ==
  \E i, j \in DOMAIN hist :
    /\ i < j /\ hist[i].op = "push" /\ hist[i].n > 0
    /\ hist[j].op = "read" /\ hist[j].n > 0

\* C21: no operation blocks: while the caller has calls left, push, pop and
\* read are enabled in every state, also when available_capacity() == 0 and
\* when the buffer is empty.
C21_NoBlocking ==
  Len(hist) < MaxCalls => (ENABLED Push /\ ENABLED Pop /\ ENABLED Read)

\* a push of at least one byte has returned on a stream with no capacity
\* available, and the buffer is empty
C21_Witness ==
  /\ JustCalled("push") /\ hist[Len(hist)].n > 0
  /\ available_capacity = 0 /\ bytes_buffered = 0

\* C22: has_error() goes from false to true only in set_error(); a push
\* larger than the available capacity neither sets the flag nor fails, and
\* no push, pop, close or read sets it.
C22_ErrorStep ==
  /\ (~has_error /\ has_error') => IsCall("set_error", 0)
  /\ \A n \in 0..(MaxPush + 1) : IsCall("push", n) => ~thrown'

C22_OnlySetError == [][C22_ErrorStep]_vars

\* a push of more bytes than the capacity has returned and the flag is down
C22_Witness ==
  /\ JustCalled("push") /\ hist[Len(hist)].n > capacity_
  /\ ~has_error

\* C23: read terminates: its loop body is entered at most
\* min(max_len, bytes_buffered()) times.
C23_ReadStep ==
  \A max_len \in 0..(MaxRead + 1) :
    IsCall("read", max_len) =>
      read(max_len).iters <= Min(max_len, bytes_buffered)

C23_ReadTerminates == [][C23_ReadStep]_vars

\* a read with max_len >= 2 has returned after a push of at least two bytes
C23_Witness ==
  /\ JustCalled("read") /\ hist[Len(hist)].n >= 2
  /\ \E i \in DOMAIN hist : hist[i].op = "push" /\ hist[i].n >= 2

\* C24: when peek() is empty while bytes_buffered() > 0 and fewer than
\* max_len bytes are collected, read ends with the runtime_error and pops
\* nothing.
C24_ReadStep ==
  \A max_len \in 0..(MaxRead + 1) :
    (IsCall("read", max_len) /\ peek = <<>> /\ bytes_buffered > 0
       /\ max_len > 0) =>
      (thrown' /\ removed' = removed /\ UNCHANGED stream)

C24_ReadGuard == [][C24_ReadStep]_vars

\* C25: read discards what out held, pops exactly the bytes it appended to
\* out, bytes_popped() grows by out.size(), out.size() <= max_len, and with
\* max_len == 0 or an empty buffer out is empty and the stream unchanged.
C25_ReadStep ==
  \A max_len \in 0..(MaxRead + 1) :
    IsCall("read", max_len) =>
      /\ Len(out') <= max_len
      /\ removed' = removed \o out'
      /\ read(max_len).popped = Len(out')
      /\ bytes_popped' - bytes_popped = Len(out')
      /\ (max_len = 0 \/ bytes_buffered = 0) =>
           (out' = <<>> /\ UNCHANGED stream /\ removed' = removed)

C25_ReadComposition == [][C25_ReadStep]_vars

\* the first call on the stream was a read with max_len == 0
C25_Witness == hist # <<>> /\ hist[1].op = "read" /\ hist[1].n = 0

\* C26: the queries have no side effect: a call of one of them leaves the
\* members and the buffer as they were, and every query returns after it
\* what it returned before it.
C26_QueryStep ==
  \A q \in Queries :
    IsCall(q, 0) =>
      /\ UNCHANGED stream
      /\ UNCHANGED <<accepted, removed>>
      /\ available_capacity' = available_capacity
      /\ is_closed' = is_closed
      /\ bytes_pushed' = bytes_pushed
      /\ peek' = peek
      /\ is_finished' = is_finished
      /\ bytes_buffered' = bytes_buffered
      /\ bytes_popped' = bytes_popped
      /\ has_error' = has_error

C26_PureQueries == [][C26_QueryStep]_vars

\* has_error() has been called twice in a row on a stream with the flag up
C26_Witness ==
  /\ Len(hist) >= 3
  /\ hist[Len(hist)].op = "has_error" /\ hist[Len(hist) - 1].op = "has_error"
  /\ SetErrorCalled

\* C27: push leaves bytes_popped(), closed and error as they were, pop
\* leaves bytes_pushed(), closed and error as they were, and no operation
\* changes the capacity: available_capacity() + bytes_buffered() is the same
\* in every state.
C27_FrameStep ==
  /\ \A n \in 0..(MaxPush + 1) :
       IsCall("push", n) =>
         /\ bytes_popped' = bytes_popped
         /\ is_closed' = is_closed /\ closed_' = closed_
         /\ has_error' = has_error
  /\ \A len \in 0..(MaxPop + 1) :
       IsCall("pop", len) =>
         /\ bytes_pushed' = bytes_pushed
         /\ is_closed' = is_closed /\ closed_' = closed_
         /\ has_error' = has_error
  /\ capacity_' = capacity_
  /\ available_capacity' + bytes_buffered' = available_capacity + bytes_buffered

C27_Frame == [][C27_FrameStep]_vars

\* a push of at least one byte and a pop have been made on a stream that
\* was closed and errored before them
C27_Witness ==
  \E i, j \in DOMAIN hist :
    /\ i < j /\ hist[i].op \in {"close", "set_error"}
    /\ hist[j].op = "push" /\ hist[j].n > 0
    /\ JustCalled("pop")

\* C28: after close(), bytes_buffered() never increases and
\* available_capacity() never decreases.
C28_DrainStep ==
  CloseCalled =>
    /\ bytes_buffered' <= bytes_buffered
    /\ available_capacity' >= available_capacity

C28_OnlyDrains == [][C28_DrainStep]_vars

\* a push of at least one byte has been made after close
C28_Witness ==
  \E i, j \in DOMAIN hist :
    i < j /\ hist[i].op = "close" /\ hist[j].op = "push" /\ hist[j].n > 0

\* C29: once the stream is closed and the reader keeps reading, the stream
\* gets finished: a read after close that came back with fewer than max_len
\* bytes has drained the buffer, and is_finished() is true from then on.
C29_Drained ==
  (/\ CloseCalled
   /\ JustCalled("read") /\ ~thrown
   /\ Len(out) < hist[Len(hist)].n)
    => is_finished

\* C30: unless argc == 3, main prints the usage message and returns
\* EXIT_FAILURE without calling get_URL; with argc == 3 it calls
\* get_URL(argv[1], argv[2]) and returns EXIT_SUCCESS when that returns,
\* EXIT_FAILURE when it throws.
C30_Main ==
  (main.pc = "done" /\ argc >= 1) =>
    IF argc # 3
    THEN main.usage /\ main.exit = "EXIT_FAILURE" /\ main.called = <<>>
    ELSE /\ main.called # <<>>
         /\ main.called[1] = Arg(1) /\ main.called[2] = Arg(2)
         /\ main.exit = IF main.called[3] THEN "EXIT_FAILURE" ELSE "EXIT_SUCCESS"

\* C31: main never evaluates args[i] with i >= argc.
C31_ArgsInRange ==
  argc >= 1 => \A i \in DOMAIN main.reads : main.reads[i] < argc

\* the request of the claim, spelled out
C32_Request(host, path) ==
  <<"G", "E", "T", " ">> \o path \o <<" ", "H", "T", "T", "P", "/", "1", ".", "1",
    "\r", "\n", "H", "o", "s", "t", ":", " ">> \o host
    \o <<"\r", "\n", "C", "o", "n", "n", "e", "c", "t", "i", "o", "n", ":", " ",
         "c", "l", "o", "s", "e", "\r", "\n", "\r", "\n">>

\* the chunks the reads of get_URL have returned, in arrival order
RECURSIVE C32_ChunksRead(_)
C32_ChunksRead(ev) ==
  IF ev = <<>> THEN <<>>
  ELSE C32_ChunksRead(SubSeq(ev, 1, Len(ev) - 1))
       \o (IF ev[Len(ev)].kind = "read" /\ ev[Len(ev)].b = <<>>
           THEN <<ev[Len(ev)].a>> ELSE <<>>)

\* C32: get_URL resolves host on service "80", then connects, then writes
\* the request "GET <path> HTTP/1.1\r\nHost: <host>\r\nConnection: close
\* \r\n\r\n", and only then reads; every chunk read is printed, in order.
C32_Order ==
  LET ev == url.events IN
  /\ \A i \in DOMAIN ev :
       /\ (i = 1) <=> (ev[i].kind = "resolve")
       /\ (i = 2) <=> (ev[i].kind = "connect")
       /\ (i = 3) <=> (ev[i].kind = "write")
       /\ (i >= 4) <=> (ev[i].kind = "read")
  /\ \A i \in DOMAIN ev :
       /\ ev[i].kind = "resolve" => (ev[i].a = url.host /\ ev[i].b = <<"8", "0">>)
       /\ ev[i].kind = "write" => ev[i].a = C32_Request(url.host, url.path)
  /\ url.printed # <<>> =>
       SubSeq(url.printed, 2, Len(url.printed)) = C32_ChunksRead(ev)

\* get_URL has returned after reading the longest response in pieces
C32_Witness ==
  /\ url.pc = "done" /\ Len(url.resp) = MaxResp
  /\ Len(url.events) > 5

\* C33: the read loop of get_URL ends exactly at EOF: it is never left while
\* eof() is false, and when the peer closes the connection it ends, with
\* every byte of the response consumed.
C33_LoopEnds ==
  /\ [](url.pc = "done" => (url.eof /\ url.got = Len(url.resp)))
  /\ ((url.pc = "loop" /\ url.fate = "closes")
        ~> (url.pc = "done" /\ url.got = Len(url.resp)))

\* get_URL has returned from a connection whose peer sent bytes and closed
C33_Witness == url.pc = "done" /\ url.fate = "closes" /\ url.got > 0

C36_RoundTrip ==
  adr.pc = "converted" =>
    /\ adr.via = "numeric" => (~adr.r.thrown /\ adr.r.value = adr.x)
    /\ (ss_family(adr.a, adr.le) # AF_INET \/ adr.a.size # sizeof_sockaddr_in)
         => adr.r.thrown

\* a value whose bytes differ end to end has made the round trip on a
\* little-endian host
C36_Witness ==
  /\ adr.pc = "converted" /\ adr.via = "numeric" /\ adr.le
  /\ adr.x = <<1, 0, 128, 255>>

\* C37: Address(addr, size) throws "invalid sockaddr size" and copies
\* nothing when size > sizeof(sockaddr_storage); otherwise size() == size
\* and the Address holds the first size bytes of addr.
C37_SizeCheck ==
  (adr.via = "sockaddr" /\ adr.pc # "start") =>
    IF adr.size > 128
    THEN /\ adr.pc = "rejected"
         /\ adr.a.thrown /\ adr.a.what = "invalid sockaddr size"
         /\ adr.a.storage = Zeros(128)
    ELSE /\ adr.pc # "rejected"
         /\ ~adr.a.thrown
         /\ adr.a.size = adr.size
         /\ SubSeq(adr.a.storage, 1, adr.size) = adr.addr

\* an Address of exactly sizeof(sockaddr_storage) bytes has been built
C37_Witness ==
  /\ adr.via = "sockaddr" /\ adr.pc = "built"
  /\ adr.size = 128 /\ Len(adr.addr) = 128

====
